---- MODULE Spec2Model ----
(***************************************************************************)
(* Capture control of QCTools' Blackmagic DeckLink back end:               *)
(* CaptureHelper (Source/Core/BlackmagicDeckLink.cpp).                     *)
(*                                                                         *)
(* A CaptureHelper owns three hardware handles (m_card, m_input,           *)
(* m_control), publishes its status in Config_Out, reads the capture       *)
(* window and the frame limit from Config_In and forwards accepted frames  *)
(* to the sink reached through Glue.  Every method is modelled as an       *)
(* operator from the object's state (a record) to the set of states the    *)
(* method can return in: the hardware decides the result of each call.  A  *)
(* call through a NULL handle is undefined behaviour: the process faults,  *)
(* or goes on in a state nothing is promised of; both end the behaviour.   *)
(* One action per entry point applies the operator to the current state.   *)
(***************************************************************************)
EXTENDS Integers, Sequences, FiniteSets

\* ------------------------------------------------------------------ bounds
\* Largest frame position the model lets m_FramePos reach.
MaxFramePos == 3
\* Largest configured Config_In->FrameCount.
MaxFrameCount == 2

\* ------------------------------------------------------- program constants
\* The "unset" sentinel of TC_in, TC_out, TC_current, and FrameCount.
Unset == -1

\* Packed BCD timecode: hours >>24, minutes >>16, seconds >>8, frames >>0,
\* two decimal digits per byte.
Byte(n) == (n \div 10) * 16 + (n % 10)
BCD(h, m, s, f) == Byte(h) * 16777216 + Byte(m) * 65536 + Byte(s) * 256 + Byte(f)

\* Timecodes the deck delivers in the model.
TimecodeValues ==
    { BCD(0, 59, 59, 29), BCD(1, 0, 0, 0), BCD(1, 0, 5, 0), BCD(1, 0, 10, 0) }

\* Timecodes the deck answers a GetTimecode query with.
DeckTimecodes == { BCD(1, 0, 5, 0) }

\* Capture windows a caller configures: <<TC_in, TC_out>> with TC_in < TC_out,
\* or both unset.
Windows ==
    { <<Unset, Unset>>,
      <<BCD(1, 0, 0, 0), BCD(1, 0, 10, 0)>> }

FrameCounts == {Unset} \cup (0 .. MaxFrameCount)

\* An arriving frame: the serial timecode it carries (if any) and whether an
\* audio packet comes with it.
Frames ==
    { [hasTC |-> TRUE, tc |-> t, audio |-> a] : t \in TimecodeValues, a \in BOOLEAN }
    \cup { [hasTC |-> FALSE, tc |-> Unset, audio |-> a] : a \in BOOLEAN }

DeckEvents == { "Aborted", "PrepareForExport", "PrepareForCapture",
                "ExportComplete", "CaptureComplete" }

\* Results of IDeckLinkDeckControl::GetTimecode.
TimecodeAnswers == { "ok", "noCommunication", "error" }

NoArg == [hasTC |-> FALSE, tc |-> Unset, audio |-> FALSE]

VARIABLES
    m_card,        \* the card handle is held (non-NULL)
    m_input,       \* the input interface is held
    m_control,     \* the deck control interface is held
    m_FramePos,    \* position given to the next forwarded frame
    WantTimeCode,  \* a timecode query waits for the deck to connect
    Glue,          \* Glue && *Glue: a sink is attached
    Status,        \* Config_Out->Status
    TC_current,    \* Config_Out->TC_current
    TC_in,         \* Config_In->TC_in
    TC_out,        \* Config_In->TC_out
    FrameCount,    \* Config_In->FrameCount
    streaming,     \* hardware: StartStreams succeeded, frames are delivered
    deckOpen,      \* hardware: the deck session's Open was accepted
    pc,            \* "run"; "crashed" or "undefined" after a call through a
                   \* NULL handle; "destroyed" after the destructor
    calls,         \* calls the last operation made on the hardware and the sink
    ret,           \* value returned by the last bool operation
    lastOp,        \* the last operation
    arg,           \* the frame the last operation received, if it was a frame
    event,         \* the deck event the last operation received, if any
    lastFwdPos,    \* position of the last frame forwarded since startCapture
    prevStatus,    \* Status when the last operation began
    repeated,      \* the last two operations were both finishCapture
    rejected,      \* the deck rejected a transport command of the last operation
    answer,        \* the deck's answer to the last operation's GetTimecode
    ended,         \* the sink got CloseOutput and no startCapture came since
    inFlight,      \* frames accepted by a frame callback that has not yet
                   \* reached its forwarding block (threaded specification)
    finishing      \* threads inside finishCapture, past its test of the
                   \* status (threaded specification)

vars == << m_card, m_input, m_control, m_FramePos, WantTimeCode, Glue,
           Status, TC_current, TC_in, TC_out, FrameCount, streaming, deckOpen,
           pc, calls, ret, lastOp, arg, event, lastFwdPos,
           prevStatus, repeated, rejected, answer, ended, inFlight,
           finishing >>

\* ------------------------------------------------------------ the object
\* The object's state as a record, with the log of the running operation.
St ==
    [ m_card |-> m_card, m_input |-> m_input, m_control |-> m_control,
      m_FramePos |-> m_FramePos,
      WantTimeCode |-> WantTimeCode, Glue |-> Glue, Status |-> Status,
      TC_current |-> TC_current, streaming |-> streaming,
      deckOpen |-> deckOpen, pc |-> pc,
      calls |-> <<>>, ret |-> FALSE,
      rejected |-> FALSE, answer |-> "none" ]

Call(name) == [c |-> name, kind |-> Unset, pos |-> Unset]
OutputFrame(kind, pos) == [c |-> "OutputFrame", kind |-> kind, pos |-> pos]
Log(s, c) == [s EXCEPT !.calls = Append(@, c)]

\* A call through a NULL handle is undefined behaviour.  The process faults
\* there, or it goes on in a state of which nothing is known; either way the
\* rest of the method is not modelled and no further operation is.
Crash(s) == [s EXCEPT !.pc = "crashed"]
Undefined(s) == [s EXCEPT !.pc = "undefined"]
NullCall(s) == { Crash(s), Undefined(s) }

\* A transport command (Play, Stop, Abort, StartCapture) sent through
\* m_control: accepted or rejected by the deck.
DeckCommand(s, name) ==
    IF s.m_control
    THEN { [st |-> [Log(s, Call(name)) EXCEPT !.rejected = ~r], ok |-> r]
           : r \in BOOLEAN }
    ELSE { [st |-> u, ok |-> FALSE] : u \in NullCall(s) }

\* ------------------------------------------------------------------ card
\* CaptureHelper::cleanupCard
cleanupCard(s) ==
    IF ~s.m_card
    THEN [s EXCEPT !.ret = TRUE]
    ELSE [Log(s, Call("CardRelease")) EXCEPT !.m_card = FALSE, !.ret = TRUE]

\* ----------------------------------------------------------------- input
\* CaptureHelper::setupInput.  The outcomes, in the order of the code's
\* returns: the interface query fails (m_input stays NULL); the mode iterator
\* is refused, NTSC is not among the modes, or video enable, audio enable or
\* StartStreams fails (m_input held, no stream); success.  None of the failure
\* paths releases m_input.  m_width, m_height and the time base are read by
\* nothing but the deck's Open and are left out.
setupInput(s) ==
    IF s.m_input
    THEN { [s EXCEPT !.ret = TRUE] }
    ELSE LET s0 == [s EXCEPT !.ret = FALSE] IN
         IF ~s0.m_card
         THEN NullCall(s0)
         ELSE { s0,
                [s0 EXCEPT !.m_input = TRUE],
                [s0 EXCEPT !.m_input = TRUE,
                           !.streaming = TRUE, !.ret = TRUE] }

\* cleanupInput without the test for a held interface.
cleanupInput_NoGuard(s) ==
    LET s1 == Log(s, Call("StopStreams"))
        s2 == Log(s1, Call("DisableVideoInput"))
        s3 == Log(s2, Call("InputSetCallbackNull"))
        s4 == Log(s3, Call("InputRelease"))
    IN [s4 EXCEPT !.m_input = FALSE, !.streaming = FALSE, !.ret = TRUE]

\* CaptureHelper::cleanupInput
cleanupInput(s) ==
    IF ~s.m_input
    THEN [s EXCEPT !.ret = TRUE]
    ELSE LET s1 == Log(s, Call("StopStreams"))
             s2 == Log(s1, Call("DisableVideoInput"))
             s3 == Log(s2, Call("InputSetCallbackNull"))
             s4 == Log(s3, Call("InputRelease"))
         IN [s4 EXCEPT !.m_input = FALSE, !.streaming = FALSE, !.ret = TRUE]

\* --------------------------------------------------------------- control
\* CaptureHelper::setupControl once setupInput has succeeded and m_control is
\* NULL: the control interface is refused (m_control stays NULL), Open is
\* rejected (m_control stays held), or Open is accepted.
openControl(s) ==
    IF ~s.m_card THEN NullCall(s)
    ELSE { [s EXCEPT !.ret = FALSE],
           [Log(s, Call("Open")) EXCEPT !.m_control = TRUE, !.ret = FALSE],
           [Log(s, Call("Open")) EXCEPT !.m_control = TRUE, !.deckOpen = TRUE,
                                        !.ret = TRUE] }

\* CaptureHelper::setupControl
setupControl(s) ==
    UNION { IF t.pc # "run" \/ ~t.ret THEN { t }
            ELSE IF t.m_control THEN { [t EXCEPT !.ret = TRUE] }
            ELSE openControl(t)
            : t \in setupInput(s) }

\* CaptureHelper::cleanupControl
cleanupControl(s) ==
    IF ~s.m_control
    THEN [s EXCEPT !.ret = TRUE]
    ELSE IF s.Status = "capturing" /\ TC_in # Unset
    THEN [Log(s, Call("Abort")) EXCEPT !.Status = "aborting", !.ret = FALSE]
    ELSE LET s1 == Log(s, Call("Close"))
             s2 == Log(s1, Call("ControlSetCallbackNull"))
             s3 == Log(s2, Call("ControlRelease"))
         IN [s3 EXCEPT !.m_control = FALSE, !.deckOpen = FALSE, !.ret = TRUE]

\* CaptureHelper::readTimeCode, with the deck's answer to GetTimecode.
readTimeCode(s, a, tc) ==
    LET s1 == [Log(s, Call("GetTimecode")) EXCEPT !.answer = a] IN
    IF a = "ok"
    THEN Log([s1 EXCEPT !.TC_current = tc], Call("TimeCodeIsAvailable"))
    ELSE IF a = "noCommunication"
    THEN [s1 EXCEPT !.WantTimeCode = TRUE, !.TC_current = Unset]
    ELSE [s1 EXCEPT !.TC_current = Unset]

\* CaptureHelper::getTimeCode
getTimeCode(s) ==
    UNION { IF t.pc # "run" \/ ~t.ret THEN { t }
            ELSE { readTimeCode(t, a, tc) : a \in TimecodeAnswers, tc \in DeckTimecodes }
            : t \in setupControl(s) }

\* --------------------------------------------------------------- capture
\* finishCapture without the test for a finished capture.
finishCapture_NoGuard(s) ==
    LET s1 == IF s.Glue THEN Log(s, Call("CloseOutput")) ELSE s
    IN [s1 EXCEPT !.Status = "finished", !.ret = TRUE]

\* finishCapture past its test of the status: CloseOutput to an attached
\* sink, then the status.
finishCaptureEnd(s) ==
    LET s1 == IF s.Glue THEN Log(s, Call("CloseOutput")) ELSE s
    IN [s1 EXCEPT !.Status = "finished", !.ret = TRUE]

\* CaptureHelper::finishCapture
finishCapture(s) ==
    IF s.Status = "finished"
    THEN [s EXCEPT !.ret = FALSE]
    ELSE LET s1 == IF s.Glue THEN Log(s, Call("CloseOutput")) ELSE s
         IN [s1 EXCEPT !.Status = "finished", !.ret = TRUE]

\* CaptureHelper::startCapture from "*** Start capture ***" on: Play for an
\* unbounded capture, setupControl and StartCapture for a bounded one.
startDeck(s) ==
    IF TC_in = Unset
    THEN { IF r.st.pc = "run" THEN [r.st EXCEPT !.Status = "capturing"] ELSE r.st
           : r \in DeckCommand(s, "Play") }
    ELSE UNION { IF c.pc # "run" \/ ~c.ret THEN { c }
                 ELSE { IF r.st.pc # "run" THEN r.st
                        ELSE IF r.ok THEN [r.st EXCEPT !.Status = "capturing"]
                        ELSE [r.st EXCEPT !.Status = "finished"]
                        : r \in DeckCommand(c, "StartCapture") }
                 : c \in setupControl(s) }

\* CaptureHelper::startCapture: cleanupInput, setupInput with its result
\* dropped, setupInput again, then the deck.
startCapture(s) ==
    UNION { IF a.pc # "run" THEN { a }
            ELSE UNION { IF b.pc # "run" \/ ~b.ret THEN { b } ELSE startDeck(b)
                         : b \in setupInput(a) }
            : a \in setupInput(cleanupInput(s)) }

\* stop that finishes a bounded capture at once instead of waiting for the
\* deck's aborted event.
stop_FinishesAtOnce(s) ==
    IF TC_in # Unset
    THEN { IF r.st.pc = "run" THEN finishCapture(r.st) ELSE r.st
           : r \in DeckCommand(s, "Abort") }
    ELSE { IF r.st.pc = "run" THEN finishCapture(r.st) ELSE r.st
           : r \in DeckCommand(s, "Stop") }

\* stop that leaves an unbounded capture running after the Stop command.
stop_NoFinish(s) ==
    IF TC_in # Unset
    THEN { IF r.st.pc = "run" THEN [r.st EXCEPT !.Status = "aborting"] ELSE r.st
           : r \in DeckCommand(s, "Abort") }
    ELSE { r.st : r \in DeckCommand(s, "Stop") }

\* CaptureHelper::stop
stop(s) ==
    IF TC_in # Unset
    THEN { IF r.st.pc = "run" THEN [r.st EXCEPT !.Status = "aborting"] ELSE r.st
           : r \in DeckCommand(s, "Abort") }
    ELSE { IF r.st.pc = "run" THEN finishCapture(r.st) ELSE r.st
           : r \in DeckCommand(s, "Stop") }

\* CaptureHelper::DeckControlEventReceived
DeckControlEventReceived(s, e) ==
    IF e = "PrepareForCapture" THEN s ELSE finishCapture(s)

\* DeckControlStatusChanged without the test for deck-connected.
DeckControlStatusChanged_AnyStatus(s, connected) ==
    IF s.WantTimeCode
    THEN { [readTimeCode(s, a, tc) EXCEPT !.WantTimeCode = FALSE]
           : a \in TimecodeAnswers, tc \in DeckTimecodes }
    ELSE { s }

\* CaptureHelper::DeckControlStatusChanged; connected: the mask and the flags
\* both carry bmdDeckControlStatusDeckConnected.
DeckControlStatusChanged(s, connected) ==
    IF connected /\ s.WantTimeCode
    THEN { [readTimeCode(s, a, tc) EXCEPT !.WantTimeCode = FALSE]
           : a \in TimecodeAnswers, tc \in DeckTimecodes }
    ELSE { s }

\* ShouldDecode with the out-point inside the window (> for >=).
ShouldDecode_OutInclusive(s, f) ==
    /\ ~(FrameCount # Unset /\ s.m_FramePos >= FrameCount)
    /\ IF f.hasTC
       THEN ~( /\ TC_in # Unset
               /\ \/ (s.TC_current # Unset /\ f.tc = s.TC_current)
                  \/ f.tc < TC_in
                  \/ f.tc > TC_out )
       ELSE TC_in = Unset

\* ShouldDecode that lets a frame without timecode through a bounded capture.
ShouldDecode_NoTimecodePasses(s, f) ==
    /\ ~(FrameCount # Unset /\ s.m_FramePos >= FrameCount)
    /\ IF f.hasTC
       THEN ~( /\ TC_in # Unset
               /\ \/ (s.TC_current # Unset /\ f.tc = s.TC_current)
                  \/ f.tc < TC_in
                  \/ f.tc >= TC_out )
       ELSE TRUE

\* ShouldDecode without the test of the frame limit.
ShouldDecode_NoLimit(s, f) ==
    IF f.hasTC
    THEN ~( /\ TC_in # Unset
            /\ \/ (s.TC_current # Unset /\ f.tc = s.TC_current)
               \/ f.tc < TC_in
               \/ f.tc >= TC_out )
    ELSE TC_in = Unset

\* The gate of VideoInputFrameArrived: the value of ShouldDecode when the
\* forwarding block is reached.
ShouldDecode(s, f) ==
    /\ ~(FrameCount # Unset /\ s.m_FramePos >= FrameCount)
    /\ IF f.hasTC
       THEN ~( /\ TC_in # Unset
               /\ \/ (s.TC_current # Unset /\ f.tc = s.TC_current)
                  \/ f.tc < TC_in
                  \/ f.tc >= TC_out )
       ELSE TC_in = Unset

\* Forward with the audio buffer delivered after the increment.
Forward_AudioAfterIncrement(s, f) ==
    LET s1 == IF s.Glue
              THEN Log(Log(s, OutputFrame(0, s.m_FramePos)),
                       OutputFrame(1, s.m_FramePos + 1))
              ELSE s
        s2 == [s1 EXCEPT !.m_FramePos = @ + 1]
        go(t) == IF FrameCount # Unset /\ t.m_FramePos >= FrameCount
                 THEN stop(t) ELSE { t }
    IN IF f.audio THEN go(s2) ELSE NullCall(s)

\* Forward without the stop at the frame limit.
Forward_NoLimitStop(s, f) ==
    LET s1 == IF s.Glue
              THEN Log(Log(s, OutputFrame(0, s.m_FramePos)),
                       OutputFrame(1, s.m_FramePos))
              ELSE s
        s2 == [s1 EXCEPT !.m_FramePos = @ + 1]
    IN IF f.audio THEN { s2 } ELSE NullCall(s)

\* Forward with the stop one frame late (> for >=).
Forward_StopPastLimit(s, f) ==
    LET s1 == IF s.Glue
              THEN Log(Log(s, OutputFrame(0, s.m_FramePos)),
                       OutputFrame(1, s.m_FramePos))
              ELSE s
        s2 == [s1 EXCEPT !.m_FramePos = @ + 1]
        go(t) == IF FrameCount # Unset /\ t.m_FramePos > FrameCount
                 THEN stop(t) ELSE { t }
    IN IF f.audio THEN go(s2) ELSE NullCall(s)

\* Forward with stop() after every forwarded frame, frame limit or not.
Forward_AlwaysStops(s, f) ==
    LET s1 == IF s.Glue
              THEN Log(Log(s, OutputFrame(0, s.m_FramePos)),
                       OutputFrame(1, s.m_FramePos))
              ELSE s
        s2 == [s1 EXCEPT !.m_FramePos = @ + 1]
    IN IF f.audio THEN stop(s2) ELSE NullCall(s)

\* The forwarding block of VideoInputFrameArrived: both buffers to the sink
\* at m_FramePos, the position incremented, stop() at the frame limit.
\* GetBytes on a NULL audio packet is a call through a NULL handle.
Forward(s, f) ==
    LET s1 == IF s.Glue
              THEN Log(Log(s, OutputFrame(0, s.m_FramePos)),
                       OutputFrame(1, s.m_FramePos))
              ELSE s
        s2 == [s1 EXCEPT !.m_FramePos = @ + 1]
        go(t) == IF FrameCount # Unset /\ t.m_FramePos >= FrameCount
                 THEN stop(t) ELSE { t }
    IN IF f.audio THEN go(s2) ELSE NullCall(s)

\* VideoInputFrameArrived without the test of the status.
VideoInputFrameArrived_NoStatusCheck(s, f) ==
    LET s1 == IF f.hasTC THEN [s EXCEPT !.TC_current = f.tc] ELSE s
    IN IF ShouldDecode(s, f) THEN Forward(s1, f) ELSE { s1 }

\* VideoInputFrameArrived that records the timecode of forwarded frames only.
VideoInputFrameArrived_TimecodeOfForwarded(s, f) ==
    IF s.Status # "capturing" THEN { s }
    ELSE LET s1 == IF f.hasTC THEN [s EXCEPT !.TC_current = f.tc] ELSE s
         IN IF ShouldDecode(s, f) THEN Forward(s1, f) ELSE { s }

\* CaptureHelper::VideoInputFrameArrived
VideoInputFrameArrived(s, f) ==
    IF s.Status # "capturing" THEN { s }
    ELSE LET s1 == IF f.hasTC THEN [s EXCEPT !.TC_current = f.tc] ELSE s
         IN IF ShouldDecode(s, f) THEN Forward(s1, f) ELSE { s1 }

\* The destructor without its finishCapture.
Destructor_NoFinish(s) ==
    [cleanupCard(cleanupInput(cleanupControl(s))) EXCEPT !.pc = "destroyed"]

\* CaptureHelper::~CaptureHelper
Destructor(s) ==
    [cleanupCard(cleanupInput(cleanupControl(finishCapture(s))))
        EXCEPT !.pc = "destroyed"]

\* ---------------------------------------------------------------- actions
Forwarded(cs) == \E i \in DOMAIN cs : cs[i].c = "OutputFrame"
Count(cs, name) == Cardinality({ i \in DOMAIN cs : cs[i].c = name })
Issued(cs, name) == Count(cs, name) > 0
\* a precedes b wherever both were called
Before(cs, a, b) ==
    \A i, j \in DOMAIN cs : (cs[i].c = a /\ cs[j].c = b) => i < j

\* The state after an operation that returned in t, but for inFlight and
\* finishing.
Effect(t, op, f, e) ==
    /\ m_card' = t.m_card
    /\ m_input' = t.m_input
    /\ m_control' = t.m_control
    /\ m_FramePos' = t.m_FramePos
    /\ WantTimeCode' = t.WantTimeCode
    /\ Glue' = t.Glue
    /\ Status' = t.Status
    /\ TC_current' = t.TC_current
    /\ streaming' = t.streaming
    /\ deckOpen' = t.deckOpen
    /\ pc' = t.pc
    /\ calls' = t.calls
    /\ ret' = t.ret
    /\ lastOp' = op
    /\ arg' = f
    /\ event' = e
    /\ lastFwdPos' = IF op = "startCapture" THEN Unset
                     ELSE IF op = "frame" /\ Forwarded(t.calls) THEN m_FramePos
                     ELSE lastFwdPos
    /\ prevStatus' = Status
    /\ repeated' = (op = "finishCapture" /\ lastOp = "finishCapture")
    /\ rejected' = t.rejected
    /\ answer' = t.answer
    /\ ended' = IF op = "startCapture" THEN FALSE
                ELSE IF Issued(t.calls, "CloseOutput") THEN TRUE
                ELSE ended
    /\ UNCHANGED << TC_in, TC_out, FrameCount >>

\* The state after an operation that returned in t and that no frame
\* callback overlaps.
Apply(t, op, f, e) ==
    Effect(t, op, f, e) /\ UNCHANGED << inFlight, finishing >>

\* After CaptureHelper::CaptureHelper: setupCard found the card or did not,
\* nothing else is held, the position is 0 and no sink is attached.  The
\* caller's Config_In holds a window and a frame limit; Config_Out starts idle.
Init ==
    /\ m_card \in BOOLEAN
    /\ m_input = FALSE
    /\ m_control = FALSE
    /\ m_FramePos = 0
    /\ WantTimeCode = FALSE
    /\ Glue = FALSE
    /\ Status = "idle"
    /\ TC_current = Unset
    /\ \E w \in Windows : TC_in = w[1] /\ TC_out = w[2]
    /\ FrameCount \in FrameCounts
    /\ streaming = FALSE
    /\ deckOpen = FALSE
    /\ pc = "run"
    /\ calls = <<>>
    /\ ret = FALSE
    /\ lastOp = "new"
    /\ arg = NoArg
    /\ event = "none"
    /\ lastFwdPos = Unset
    /\ prevStatus = "idle"
    /\ repeated = FALSE
    /\ rejected = FALSE
    /\ answer = "none"
    /\ ended = FALSE
    /\ inFlight = <<>>
    /\ finishing = {}

\* The caller attaches the sink (*Glue becomes non-NULL) before it starts a
\* capture; the sink then stays for the object's lifetime.
AttachGlue ==
    /\ pc = "run" /\ ~Glue /\ Status = "idle"
    /\ Apply([St EXCEPT !.Glue = TRUE], "attach", NoArg, "none")

StartCapture ==
    /\ pc = "run"
    /\ \E t \in startCapture(St) : Apply([t EXCEPT !.ret = FALSE], "startCapture", NoArg, "none")

Stop ==
    /\ pc = "run"
    /\ \E t \in stop(St) : Apply([t EXCEPT !.ret = FALSE], "stop", NoArg, "none")

GetTimeCode ==
    /\ pc = "run"
    /\ \E t \in getTimeCode(St) : Apply([t EXCEPT !.ret = FALSE], "getTimeCode", NoArg, "none")

FinishCapture ==
    /\ pc = "run"
    /\ Apply(finishCapture(St), "finishCapture", NoArg, "none")

\* The input delivers a frame to the callback set by setupInput.
FrameArrived ==
    /\ pc = "run" /\ streaming
    /\ m_FramePos < MaxFramePos
    /\ \E f \in Frames : \E t \in VideoInputFrameArrived(St, f) :
          Apply([t EXCEPT !.ret = FALSE], "frame", f, "none")

\* The deck delivers an event to the callback set by setupControl.
DeckEvent ==
    /\ pc = "run" /\ m_control
    /\ \E e \in DeckEvents :
          Apply([DeckControlEventReceived(St, e) EXCEPT !.ret = FALSE], "deckEvent", NoArg, e)

StatusChanged ==
    /\ pc = "run" /\ m_control
    /\ \E connected \in BOOLEAN : \E t \in DeckControlStatusChanged(St, connected) :
          Apply([t EXCEPT !.ret = FALSE], "statusChanged", NoArg,
                IF connected THEN "connected" ELSE "notConnected")

Destroy ==
    /\ pc = "run"
    /\ Apply(Destructor(St), "destroy", NoArg, "none")

Next ==
    \/ AttachGlue
    \/ StartCapture
    \/ Stop
    \/ GetTimeCode
    \/ FinishCapture
    \/ FrameArrived
    \/ DeckEvent
    \/ StatusChanged
    \/ Destroy

Spec == Init /\ [][Next]_vars

TypeOK ==
    /\ m_card \in BOOLEAN /\ m_input \in BOOLEAN /\ m_control \in BOOLEAN
    /\ Status \in { "idle", "capturing", "aborting", "finished" }
    /\ m_FramePos \in 0 .. MaxFramePos
    /\ TC_current \in TimecodeValues \cup {Unset}
    /\ pc \in { "run", "crashed", "undefined", "destroyed" }
    /\ rejected \in BOOLEAN /\ ended \in BOOLEAN
    /\ answer \in TimecodeAnswers \cup { "none" }
    /\ Len(inFlight) <= 1 /\ \A i \in DOMAIN inFlight : inFlight[i] \in Frames
    /\ finishing \subseteq { "caller", "deck" }

\* ================================================================ claims

\* C1: a frame-arrival callback that runs while the status is not capturing
\* (idle, aborting or finished) forwards nothing to the sink, makes no call
\* at all, leaves the frame position and leaves the status.
C1_FrameOutsideCaptureIsDropped ==
    [][ (lastOp' = "frame" /\ Status # "capturing")
            => /\ ~Forwarded(calls')
               /\ calls' = <<>>
               /\ m_FramePos' = m_FramePos
               /\ Status' = Status ]_vars

\* C1 witness: a frame with a timecode inside the window and an audio packet
\* has arrived, with a sink attached, while the status was aborting.
C1_Witness ==
    /\ lastOp = "frame" /\ prevStatus = "aborting" /\ Status = "aborting"
    /\ Glue /\ arg.hasTC /\ arg.audio
    /\ TC_in # Unset /\ arg.tc >= TC_in /\ arg.tc < TC_out

\* C2: in a bounded capture with no frame limit, while capturing, a frame
\* carrying timecode T (with its audio packet, a sink being attached) is
\* forwarded if and only if TC_in <= T < TC_out and T differs from
\* TC_current, the timecode observed before it; a forwarded frame gets the
\* current frame position.
C2_ForwardedIffInWindowAndNew ==
    [][ ( /\ lastOp' = "frame" /\ Status = "capturing"
          /\ TC_in # Unset /\ TC_in < TC_out /\ FrameCount = Unset
          /\ arg'.hasTC /\ arg'.audio /\ Glue )
            => /\ Forwarded(calls')
                    <=> ( /\ TC_in <= arg'.tc
                          /\ arg'.tc < TC_out
                          /\ arg'.tc # TC_current )
               /\ Forwarded(calls') => calls'[1] = OutputFrame(0, m_FramePos) ]_vars

\* C2 witness: window [01:00:00:00, 01:00:10:00), the frame 01:00:05:00 has
\* been forwarded at position 1 after an earlier frame at position 0.
C2_Witness ==
    /\ lastOp = "frame" /\ prevStatus = "capturing"
    /\ TC_in = BCD(1, 0, 0, 0) /\ TC_out = BCD(1, 0, 10, 0) /\ FrameCount = Unset
    /\ arg.hasTC /\ arg.tc = BCD(1, 0, 5, 0)
    /\ Glue /\ arg.audio
    /\ calls = << OutputFrame(0, 1), OutputFrame(1, 1) >>
    /\ m_FramePos = 2

\* C3 (as claimed): the first frame forwarded after a start request is
\* tagged with position 0, also when an earlier capture attempt of the same
\* object has forwarded frames.  Stated for the frame that directly follows a
\* start request made once the earlier attempt was over.
C3_FirstForwardedFrameIsZero ==
    [][ ( /\ lastOp = "startCapture" /\ prevStatus \in { "idle", "finished" }
          /\ lastOp' = "frame" /\ Forwarded(calls') )
            => calls'[1].pos = 0 ]_vars

\* C4: within one capture attempt consecutive forwarded frames carry
\* positions that differ by exactly 1; the video buffer and then the audio
\* buffer of a forwarded frame go out with the same position, which is then
\* consumed; with a sink attached, a frame that is not forwarded consumes no
\* position.
C4_PositionsAreConsecutive ==
    [][ (lastOp' = "frame" /\ Glue)
            => /\ Forwarded(calls')
                    => /\ Len(calls') >= 2
                       /\ calls'[1] = OutputFrame(0, m_FramePos)
                       /\ calls'[2] = OutputFrame(1, m_FramePos)
                       /\ Count(calls', "OutputFrame") = 2
                       /\ m_FramePos' = m_FramePos + 1
                       /\ lastFwdPos # Unset => m_FramePos = lastFwdPos + 1
               /\ ~Forwarded(calls') => m_FramePos' = m_FramePos ]_vars

\* C4 witness: a second frame of one attempt has been forwarded, at position
\* 1, right after the attempt's frame at position 0.
C4_Witness ==
    /\ lastOp = "frame" /\ Glue /\ arg.audio
    /\ lastFwdPos = 1 /\ m_FramePos = 2
    /\ calls = << OutputFrame(0, 1), OutputFrame(1, 1) >>

\* C5: finishCapture is idempotent.  With a sink attached, a call from a
\* status other than finished reports a change and emits one CloseOutput; a
\* call that follows another finishCapture reports no change and emits
\* nothing, so that the two calls together emit exactly one CloseOutput; the
\* status is finished after each call.
C5_FinishCaptureIdempotent ==
    [][ (lastOp' = "finishCapture" /\ Glue)
            => /\ Status' = "finished"
               /\ Status # "finished"
                    => (ret' /\ Count(calls', "CloseOutput") = 1)
               /\ lastOp = "finishCapture"
                    => /\ ~ret'
                       /\ Count(calls', "CloseOutput") = 0
                       /\ ret => Count(calls, "CloseOutput")
                                   + Count(calls', "CloseOutput") = 1 ]_vars

\* C5 witness: finishCapture has run twice in succession with a sink
\* attached, the first call on a capture that was not finished.
C5_Witness ==
    /\ lastOp = "finishCapture" /\ repeated /\ Glue
    /\ prevStatus = "finished" /\ Status = "finished"
    /\ ~ret /\ calls = <<>>

\* The teardown phase a call belongs to: finish (0), deck close (1), input
\* close (2), card release (3).
Phase(c) ==
    CASE c.c = "CloseOutput" -> 0
      [] c.c \in { "Close", "ControlSetCallbackNull", "ControlRelease" } -> 1
      [] c.c \in { "StopStreams", "DisableVideoInput", "InputSetCallbackNull",
                   "InputRelease" } -> 2
      [] c.c = "CardRelease" -> 3
      [] OTHER -> Unset

\* C6: the destructor, in any state, finishes the capture, then closes the
\* deck session, then the input session, then releases the card, in that
\* order; it closes exactly the resources that were held, and afterwards no
\* deck session, input session or card is held.
C6_TeardownOrder ==
    [][ lastOp' = "destroy"
            => /\ \A i \in DOMAIN calls' : Phase(calls'[i]) # Unset
               /\ \A i, j \in DOMAIN calls' :
                     i < j => Phase(calls'[i]) <= Phase(calls'[j])
               /\ Status' = "finished"
               /\ Count(calls', "CloseOutput")
                     = IF Glue /\ Status # "finished" THEN 1 ELSE 0
               /\ Count(calls', "Close") = IF m_control THEN 1 ELSE 0
               /\ Count(calls', "ControlRelease") = IF m_control THEN 1 ELSE 0
               /\ Count(calls', "StopStreams") = IF m_input THEN 1 ELSE 0
               /\ Count(calls', "InputRelease") = IF m_input THEN 1 ELSE 0
               /\ Count(calls', "CardRelease") = IF m_card THEN 1 ELSE 0
               /\ ~m_control' /\ ~m_input' /\ ~m_card' ]_vars

\* C6 witness: an object destroyed during a bounded capture, with a sink,
\* a deck session, an input session and the card held.
C6_Witness ==
    /\ lastOp = "destroy" /\ prevStatus = "capturing" /\ TC_in # Unset
    /\ Issued(calls, "CloseOutput") /\ Issued(calls, "Close")
    /\ Issued(calls, "InputRelease") /\ Issued(calls, "CardRelease")

\* C7 (as claimed): in an unbounded capture with a frame limit N >= 1 the
\* first N frames are forwarded and it is the frame after them, which is not
\* forwarded, that triggers the stop request: a frame-arrival callback that
\* issues the stop forwards nothing.
C7_StopTriggeredByUnforwardedFrame ==
    [][ ( /\ lastOp' = "frame"
          /\ TC_in = Unset /\ FrameCount # Unset /\ FrameCount >= 1
          /\ Issued(calls', "Stop") )
            => ~Forwarded(calls') ]_vars

\* C7 (amended): in an unbounded capture with a frame limit N >= 1, with a
\* sink attached, a frame (with its audio packet) that arrives while capturing is forwarded if and only if the frame
\* position is below N; the frame forwarded at position N-1 triggers the stop
\* request in its own callback, which returns with Stop issued, one
\* CloseOutput and the status finished; a frame forwarded at a lower position
\* leaves the status capturing; and a frame that arrives once the status is
\* finished is not forwarded.
C7_LimitStopsInsideLastForwardedFrame ==
    [][ ( /\ lastOp' = "frame"
          /\ TC_in = Unset /\ FrameCount # Unset /\ FrameCount >= 1
          /\ Glue /\ arg'.audio )
            => /\ Status = "capturing"
                    => /\ Forwarded(calls') <=> m_FramePos < FrameCount
                       /\ Forwarded(calls') => calls'[1] = OutputFrame(0, m_FramePos)
                       /\ m_FramePos + 1 = FrameCount
                            => /\ Status' = "finished"
                               /\ Issued(calls', "Stop")
                               /\ Count(calls', "CloseOutput") = 1
                               /\ Before(calls', "OutputFrame", "Stop")
                               /\ m_FramePos' = FrameCount
                       /\ m_FramePos + 1 < FrameCount
                            => (Status' = "capturing" /\ ~Issued(calls', "Stop"))
               /\ Status = "finished" => (~Forwarded(calls') /\ Status' = "finished") ]_vars

\* C7 witness: frame limit 2, no window; the second frame has been forwarded
\* at position 1 and its callback has stopped and finished the capture.
C7_Witness ==
    /\ lastOp = "frame" /\ TC_in = Unset /\ FrameCount = 2
    /\ prevStatus = "capturing" /\ Status = "finished" /\ m_FramePos = 2
    /\ arg.audio
    /\ calls = << OutputFrame(0, 1), OutputFrame(1, 1), Call("Stop"),
                  Call("CloseOutput") >>

\* C8: a stop request made while capturing with a timecode-in bound issues
\* Abort to the deck and sets the status to aborting, with no CloseOutput;
\* the deck's aborted event that arrives in the aborting status then sets
\* the status to finished and, with a sink attached, emits exactly one
\* CloseOutput.
C8_BoundedStopAbortsThenFinishes ==
    [][ /\ (lastOp' = "stop" /\ Status = "capturing" /\ TC_in # Unset)
            => /\ Issued(calls', "Abort")
               /\ Status' = "aborting"
               /\ ~Issued(calls', "CloseOutput")
        /\ (lastOp' = "deckEvent" /\ event' = "Aborted" /\ Status = "aborting")
            => /\ Status' = "finished"
               /\ Count(calls', "CloseOutput") = IF Glue THEN 1 ELSE 0 ]_vars

\* C8 witness: the aborted event has arrived right after a stop request that
\* left a bounded capture aborting, and the sink has been told once.
C8_Witness ==
    /\ lastOp = "deckEvent" /\ event = "Aborted"
    /\ prevStatus = "aborting" /\ Status = "finished"
    /\ TC_in # Unset /\ Glue
    /\ calls = << Call("CloseOutput") >>

\* C9: a stop request on an unbounded capture, made while capturing, issues
\* the deck's Stop and reaches finished before it returns, whatever the deck
\* answers, with exactly one CloseOutput to an attached sink and with no deck
\* event in between.
C9_UnboundedStopFinishesSynchronously ==
    [][ (lastOp' = "stop" /\ Status = "capturing" /\ TC_in = Unset)
            => /\ Len(calls') >= 1 /\ calls'[1] = Call("Stop")
               /\ Status' = "finished"
               /\ Count(calls', "CloseOutput") = IF Glue THEN 1 ELSE 0
               /\ ~Issued(calls', "Abort") ]_vars

\* C9 witness: an unbounded capture has been stopped by the caller.
C9_Witness ==
    /\ lastOp = "stop" /\ prevStatus = "capturing" /\ Status = "finished"
    /\ TC_in = Unset /\ Glue
    /\ calls = << Call("Stop"), Call("CloseOutput") >>

\* C10 (as claimed): a start request with no timecode-in bound, made on an
\* object that holds its card but has opened no deck session, uses no deck
\* session and does not fault.  Stated for a start whose input session
\* opened and streams.
C10_UnboundedStartWithoutDeckIsSafe ==
    [][ ( /\ lastOp' = "startCapture" /\ TC_in = Unset
          /\ m_card /\ ~m_control /\ streaming' )
            => pc' = "run" ]_vars

\* C11 (as claimed): a start request made in idle that hits a setup-phase
\* failure (the input session does not come to stream; or, for a bounded
\* capture with no deck session held, the control interface is refused or
\* Open is rejected) returns with the status still idle and with neither
\* Play nor StartCapture issued.  Stated for start requests that return.
C11_SetupFailureLeavesIdle ==
    [][ ( /\ lastOp' = "startCapture" /\ Status = "idle" /\ pc' = "run"
          /\ \/ ~streaming'
             \/ (TC_in # Unset /\ ~m_control /\ ~deckOpen') )
            => /\ Status' = "idle"
               /\ ~Issued(calls', "Play")
               /\ ~Issued(calls', "StartCapture") ]_vars

\* C12 (as claimed): when the deck rejects the command (Abort or Stop) that a
\* stop request issues while the status is capturing, the status is left at
\* capturing.
C12_RejectedStopLeavesCapturing ==
    [][ (lastOp' = "stop" /\ Status = "capturing" /\ rejected')
            => Status' = "capturing" ]_vars

\* C13 (as claimed): on an object whose construction found no card, a start
\* request or a timecode request returns without a fault, acquires neither an
\* input session nor a deck session, and leaves the status idle.
C13_NoCardRequestsAreSafe ==
    [][ (lastOp' \in { "startCapture", "getTimeCode" } /\ ~m_card)
            => /\ pc' = "run"
               /\ ~m_input' /\ ~m_control'
               /\ Status' = "idle" ]_vars

\* C14: a timecode query that the deck answers with no-communication leaves
\* TC_current unset and, when it was the caller's request, WantTimeCode set;
\* a status-changed event whose mask and flags both carry deck-connected
\* issues GetTimecode exactly once when a request is pending and not at all
\* when none is; a status-changed event without deck-connected issues no
\* query, makes no call and keeps the pending request and TC_current.
C14_PendingTimecodeRetriedOnConnect ==
    [][ /\ (lastOp' \in { "getTimeCode", "statusChanged" }
               /\ answer' = "noCommunication")
            => /\ TC_current' = Unset
               /\ lastOp' = "getTimeCode" => WantTimeCode'
        /\ (lastOp' = "statusChanged" /\ event' = "connected")
            => Count(calls', "GetTimecode") = IF WantTimeCode THEN 1 ELSE 0
        /\ (lastOp' = "statusChanged" /\ event' = "notConnected")
            => /\ calls' = <<>>
               /\ WantTimeCode' = WantTimeCode
               /\ TC_current' = TC_current ]_vars

\* C14 witness: the pending request left by a no-communication answer has
\* been retried by a deck-connected event, and the retry got the timecode.
C14_Witness ==
    /\ lastOp = "statusChanged" /\ event = "connected" /\ answer = "ok"
    /\ calls = << Call("GetTimecode"), Call("TimeCodeIsAvailable") >>
    /\ TC_current = BCD(1, 0, 5, 0) /\ ~WantTimeCode

\* C15 (as claimed): once the status is finished, no operation other than a
\* start request (not a stop request, a deck event, a status-changed event,
\* a frame arrival, a timecode request, finishCapture or the destructor)
\* changes the status.
C15_FinishedIsTerminal ==
    [][ (Status = "finished" /\ lastOp' # "startCapture")
            => Status' = "finished" ]_vars

\* ------------------------------------------------- threaded specification
\* The frame callback and the deck callbacks run on threads of the driver and
\* stop() on the caller's thread, with no lock in CaptureHelper: another
\* thread's operation can run between a frame callback's test of the status
\* and its forwarding block.

\* VideoInputFrameArrived up to the forwarding block: the test of the status,
\* TC_current, and the gate.  An accepted frame waits in inFlight.
FrameEnter ==
    /\ pc = "run" /\ streaming /\ inFlight = <<>>
    /\ m_FramePos < MaxFramePos
    /\ \E f \in Frames :
          LET s1 == IF f.hasTC THEN [St EXCEPT !.TC_current = f.tc] ELSE St
          IN IF Status # "capturing"
             THEN Effect(St, "frame", f, "none") /\ inFlight' = <<>>
             ELSE IF ShouldDecode(St, f)
             THEN Effect(s1, "frameEnter", f, "none") /\ inFlight' = << f >>
             ELSE Effect(s1, "frame", f, "none") /\ inFlight' = <<>>
    /\ UNCHANGED finishing

\* The forwarding block of the frame callback in progress.
FrameForward ==
    /\ pc = "run" /\ inFlight # <<>>
    /\ \E t \in Forward(St, inFlight[1]) :
          Effect(t, "frame", inFlight[1], "none")
    /\ inFlight' = <<>>
    /\ UNCHANGED finishing

\* stop() and the deck callbacks can overlap a frame callback; the other
\* operations are taken when none is in progress.
NextThreads ==
    \/ AttachGlue
    \/ (inFlight = <<>> /\ StartCapture)
    \/ Stop
    \/ (inFlight = <<>> /\ GetTimeCode)
    \/ (inFlight = <<>> /\ FinishCapture)
    \/ FrameEnter
    \/ FrameForward
    \/ DeckEvent
    \/ StatusChanged
    \/ (inFlight = <<>> /\ Destroy)

SpecThreads == Init /\ [][NextThreads]_vars

\* C16 (as claimed): once the sink has got CloseOutput, no frame is forwarded
\* to it until a new start request, under every interleaving of the frame
\* callback with the deck-event callback and the caller's stop.
C16_NoFrameAfterCaptureEnded ==
    [][ Forwarded(calls') => ~ended ]_vars

\* C17 (as claimed): with a frame limit configured, a frame that arrives
\* while capturing when the frame position has already reached the limit is
\* discarded and a stop request is issued, so that the status leaves
\* capturing.
C17_FrameAtLimitStops ==
    [][ ( /\ lastOp' = "frame" /\ Status = "capturing"
          /\ FrameCount # Unset /\ m_FramePos >= FrameCount )
            => /\ ~Forwarded(calls')
               /\ Issued(calls', "Stop") \/ Issued(calls', "Abort")
               /\ Status' # "capturing" ]_vars

\* C18: when the forwarding block of a frame callback brings the frame
\* position to the configured frame limit, the stop request is issued inside
\* that callback: when it returns, Stop has been sent and the status is
\* finished for an unbounded capture, Abort has been sent and the status is
\* aborting for a bounded one; the status is never capturing.
C18_LimitReachedStopsInCallback ==
    [][ ( /\ lastOp' = "frame" /\ Status = "capturing"
          /\ FrameCount # Unset
          /\ m_FramePos' = m_FramePos + 1 /\ m_FramePos' = FrameCount )
            => /\ Status' # "capturing"
               /\ TC_in = Unset
                    => (Status' = "finished" /\ Count(calls', "Stop") = 1)
               /\ TC_in # Unset
                    => (Status' = "aborting" /\ Count(calls', "Abort") = 1) ]_vars

\* C18 witness: in a bounded capture with frame limit 2 the second frame
\* has been forwarded at position 1 and its callback has sent Abort.
C18_Witness ==
    /\ lastOp = "frame" /\ prevStatus = "capturing" /\ Status = "aborting"
    /\ TC_in # Unset /\ FrameCount = 2 /\ m_FramePos = 2
    /\ calls = << OutputFrame(0, 1), OutputFrame(1, 1), Call("Abort") >>

\* C19: while capturing, a frame that carries no timecode is discarded when
\* TC_in is set; when TC_in is unset it is forwarded (with its audio packet,
\* a sink being attached) if and only if the frame limit is not reached; in
\* both cases TC_current is left as it was.
C19_FrameWithoutTimecode ==
    [][ (lastOp' = "frame" /\ Status = "capturing" /\ ~arg'.hasTC)
            => /\ TC_in # Unset
                    => /\ ~Forwarded(calls')
                       /\ calls' = <<>>
                       /\ m_FramePos' = m_FramePos
                       /\ TC_current' = TC_current
               /\ (TC_in = Unset /\ arg'.audio /\ Glue)
                    => /\ Forwarded(calls')
                            <=> ~(FrameCount # Unset /\ m_FramePos >= FrameCount)
                       /\ TC_current' = TC_current ]_vars

\* C19 witness: in a bounded capture that has observed the timecode
\* 01:00:05:00, a frame without timecode has arrived and has been discarded.
C19_Witness ==
    /\ lastOp = "frame" /\ prevStatus = "capturing" /\ Status = "capturing"
    /\ ~arg.hasTC /\ arg.audio /\ Glue
    /\ TC_in # Unset /\ FrameCount = Unset
    /\ TC_current = BCD(1, 0, 5, 0)
    /\ calls = <<>> /\ m_FramePos = 1

\* C20: every frame callback that runs while capturing on a frame carrying a
\* timecode, and returns, leaves TC_current equal to that frame's timecode,
\* whether the frame was forwarded or was discarded by the window test, the
\* duplicate test or the frame limit.
C20_CurrentTimecodeFollowsFrames ==
    [][ ( /\ lastOp' = "frame" /\ Status = "capturing"
          /\ arg'.hasTC /\ pc' = "run" )
            => TC_current' = arg'.tc ]_vars

\* C20 witness: in a bounded capture a frame whose timecode 00:59:59:29 lies
\* before TC_in has been discarded, and TC_current, which held another
\* timecode observed inside the window, now holds 00:59:59:29.
C20_Witness ==
    /\ lastOp = "frame" /\ prevStatus = "capturing"
    /\ TC_in = BCD(1, 0, 0, 0) /\ Glue
    /\ arg.hasTC /\ arg.tc = BCD(0, 59, 59, 29) /\ arg.audio
    /\ calls = <<>> /\ lastFwdPos = 0 /\ m_FramePos = 1
    /\ TC_current = BCD(0, 59, 59, 29)

\* C21 (as claimed): a frame that arrives while capturing without an audio
\* packet and passes the gate is forwarded video-only: the callback returns
\* without a fault, the frame position is incremented and, with a sink
\* attached, the video buffer is delivered at the position the frame found
\* and no audio buffer is delivered.
C21_AudioLessFrameForwardedVideoOnly ==
    [][ ( /\ lastOp' = "frame" /\ Status = "capturing"
          /\ ~arg'.audio /\ ShouldDecode(St, arg') )
            => /\ pc' = "run"
               /\ m_FramePos' = m_FramePos + 1
               /\ Glue => /\ Issued(calls', "OutputFrame")
                          /\ \A i \in DOMAIN calls' :
                                calls'[i].c = "OutputFrame"
                                    => calls'[i] = OutputFrame(0, m_FramePos) ]_vars

\* C22 (as claimed): the status becomes aborting only from capturing: an
\* operation that returns and finds the status idle or finished, a stop
\* request with TC_in set among them, does not set it to aborting.
C22_AbortingOnlyFromCapturing ==
    [][ (Status # "aborting" /\ Status' = "aborting" /\ pc' = "run")
            => Status = "capturing" ]_vars

\* C23 (as claimed): among deck events only capture-complete and aborted
\* move the status to finished; any other deck event (prepare-for-capture,
\* prepare-for-export, export-complete) leaves the status and sends no
\* CloseOutput; and no deck event moves the status from idle to finished.
C23_OnlyCompleteAndAbortedFinish ==
    [][ lastOp' = "deckEvent"
            => /\ event' \notin { "CaptureComplete", "Aborted" }
                    => (Status' = Status /\ ~Issued(calls', "CloseOutput"))
               /\ Status = "idle" => Status' # "finished" ]_vars

\* C24 (as claimed): StartCapture is sent to the deck only on a deck session
\* whose Open was accepted, in every sequence of operations, one with an
\* earlier rejected Open included.
C24_StartCaptureOnlyOnOpenDeck ==
    [][ Issued(calls', "StartCapture") => deckOpen' ]_vars

\* C25: each close step is idempotent.  In every state the destructor runs
\* from, cleanupCard, cleanupInput and cleanupControl applied to a resource
\* that is not held return true, make no call and leave the status, the
\* frame position and the other resources; and the destructor's calls hold
\* none that belongs to the close of a resource that was not held.
C25_CloseStepsIdempotent ==
    [][ lastOp' = "destroy"
            => /\ ~m_card => /\ cleanupCard(St) = [St EXCEPT !.ret = TRUE]
                             /\ \A i \in DOMAIN calls' : Phase(calls'[i]) # 3
               /\ ~m_input => /\ cleanupInput(St) = [St EXCEPT !.ret = TRUE]
                              /\ \A i \in DOMAIN calls' : Phase(calls'[i]) # 2
               /\ ~m_control => /\ cleanupControl(St) = [St EXCEPT !.ret = TRUE]
                                /\ \A i \in DOMAIN calls' : Phase(calls'[i]) # 1
               /\ ret' ]_vars

\* C25 witness: an object that found its card and obtained an input session
\* whose stream did not start, with no deck session, has been destroyed: the
\* deck close step ran on a resource that was not held.
C25_Witness ==
    /\ lastOp = "destroy" /\ ret /\ ~Glue
    /\ calls = << Call("StopStreams"), Call("DisableVideoInput"),
                  Call("InputSetCallbackNull"), Call("InputRelease"),
                  Call("CardRelease") >>

\* C26: with no frame limit configured a frame callback never changes the
\* status and sends no Stop, Abort or CloseOutput; the status then leaves
\* capturing only in a start request, a stop request, finishCapture, a deck
\* event or the destructor.
C26_FramesNeverEndUnlimitedCapture ==
    [][ FrameCount = Unset
            => /\ lastOp' = "frame"
                    => /\ Status' = Status
                       /\ ~Issued(calls', "Stop")
                       /\ ~Issued(calls', "Abort")
                       /\ ~Issued(calls', "CloseOutput")
               /\ (Status = "capturing" /\ Status' # "capturing")
                    => lastOp' \in { "startCapture", "stop", "finishCapture",
                                     "deckEvent", "destroy" } ]_vars

\* C26 witness: with no frame limit and no window, three frames in a row
\* have been forwarded and the status is still capturing.
C26_Witness ==
    /\ lastOp = "frame" /\ FrameCount = Unset /\ TC_in = Unset
    /\ prevStatus = "capturing" /\ Status = "capturing"
    /\ Glue /\ lastFwdPos = 2 /\ m_FramePos = 3
    /\ calls = << OutputFrame(0, 2), OutputFrame(1, 2) >>

\* C27 (as claimed): every operation that moves the status into finished
\* sends exactly one CloseOutput to an attached sink; a bounded start whose
\* StartCapture the deck rejects is one of them.
C27_FinishedNotifiesSink ==
    [][ (Status # "finished" /\ Status' = "finished" /\ Glue)
            => Count(calls', "CloseOutput") = 1 ]_vars

\* ------------------------------------------------ finishCapture in threads
\* finishCapture runs on the caller's thread (stop() of an unbounded capture)
\* and on the deck's thread (DeckControlEventReceived) with no lock: each
\* thread tests the status, and then sends CloseOutput and writes the status.

\* stop() on the caller's thread up to finishCapture's test of the status.
StopEnter ==
    /\ pc = "run" /\ "caller" \notin finishing
    /\ IF TC_in # Unset
       THEN \E t \in stop(St) : Apply([t EXCEPT !.ret = FALSE], "stop", NoArg, "none")
       ELSE \E r \in DeckCommand(St, "Stop") :
               IF r.st.pc # "run" \/ Status = "finished"
               THEN Apply(r.st, "stop", NoArg, "none")
               ELSE /\ Effect(r.st, "stopEnter", NoArg, "none")
                    /\ finishing' = finishing \cup { "caller" }
                    /\ UNCHANGED inFlight

\* DeckControlEventReceived on the deck's thread up to finishCapture's test
\* of the status.
DeckEventEnter ==
    /\ pc = "run" /\ m_control /\ "deck" \notin finishing
    /\ \E e \in DeckEvents :
          IF e = "PrepareForCapture" \/ Status = "finished"
          THEN Apply(St, "deckEvent", NoArg, e)
          ELSE /\ Effect(St, "deckEventEnter", NoArg, e)
               /\ finishing' = finishing \cup { "deck" }
               /\ UNCHANGED inFlight

\* A thread that passed the test completes finishCapture.
FinishCaptureEnd ==
    /\ pc = "run" /\ finishing # {}
    /\ \E th \in finishing :
          /\ Effect([finishCaptureEnd(St) EXCEPT !.ret = FALSE],
                    "finishCaptureEnd", NoArg, "none")
          /\ finishing' = finishing \ { th }
    /\ UNCHANGED inFlight

\* The other operations are taken when no finishCapture is in progress.
NextFinish ==
    \/ (finishing = {} /\ AttachGlue)
    \/ (finishing = {} /\ StartCapture)
    \/ StopEnter
    \/ (finishing = {} /\ GetTimeCode)
    \/ (finishing = {} /\ FrameArrived)
    \/ DeckEventEnter
    \/ FinishCaptureEnd
    \/ (finishing = {} /\ StatusChanged)
    \/ (finishing = {} /\ Destroy)

SpecFinish == Init /\ [][NextFinish]_vars

\* C28 (as claimed): when finishCapture is entered from two threads for the
\* same capture (the caller's stop on an unbounded capture and a deck event),
\* the sink gets exactly one CloseOutput under every interleaving: no
\* CloseOutput is sent for a capture whose status is already finished.
\* Stated for a capture that has forwarded a frame.
C28_OneCloseOutputPerCapture ==
    [][ (Issued(calls', "CloseOutput") /\ lastFwdPos # Unset)
            => Status # "finished" ]_vars

\* C29 (as claimed): in every state of a live object a held deck session
\* implies a held input session, and a held input session implies a held
\* card; a start request made after a timecode request does not leave the
\* deck session held with the input session closed.
C29_ResourcesNested ==
    pc = "run" => /\ m_control => m_input
                  /\ m_input => m_card

\* C30 (as claimed): a timecode request does not influence frame gating.
\* Gating being a function of the configuration, the frame position and
\* TC_current, the claim is that a timecode request made during a bounded
\* capture, answered or failing, leaves the gate's verdict on every frame
\* that can arrive next as it was.
C30_TimecodeRequestLeavesGating ==
    [][ ( /\ lastOp' = "getTimeCode" /\ pc' = "run"
          /\ Status = "capturing" /\ TC_in # Unset )
            => \A f \in Frames : ShouldDecode(St', f) <=> ShouldDecode(St, f) ]_vars

\* C31 (as claimed): a pending timecode request stays pending until a query
\* succeeds or fails with an error other than no-communication: when the
\* retry made on a deck-connected status event is again answered with
\* no-communication, WantTimeCode is still set afterwards.
C31_PendingSurvivesFailedRetry ==
    [][ ( /\ lastOp' = "statusChanged" /\ event' = "connected"
          /\ WantTimeCode /\ answer' = "noCommunication" )
            => WantTimeCode' ]_vars

\* C32: with a frame limit N >= 0 configured, the frame position is at most
\* N after every operation, over any sequence of starts, stops, deck events
\* and frame arrivals on one object, and every buffer delivered to the sink
\* carries a position below N.
C32_PositionNeverPassesLimit ==
    [][ FrameCount # Unset
            => /\ m_FramePos' <= FrameCount
               /\ \A i \in DOMAIN calls' :
                     calls'[i].c = "OutputFrame" => calls'[i].pos < FrameCount ]_vars

\* C32 witness: frame limit 2, no window; after a capture that ran to the
\* limit and a new start, a frame with its audio packet has arrived while
\* capturing at position 2 and has not been forwarded.
C32_Witness ==
    /\ lastOp = "frame" /\ prevStatus = "capturing"
    /\ FrameCount = 2 /\ TC_in = Unset /\ m_FramePos = 2
    /\ Glue /\ arg.audio /\ ~arg.hasTC
    /\ lastFwdPos = Unset /\ calls = <<>>

====
